---- MODULE Spec2Model ----
(***************************************************************************)
(* Verification model of the embed-ai browser extension:                   *)
(*   - the anchor codec of services/highlight-manager.ts (serializeRange,  *)
(*     deserializeRange, findRangeAtOffset, getXPath, getNodeByXPath) over *)
(*     a document tree, specification SpecCodec;                           *)
(*   - the background service worker's message listener with the IndexedDB *)
(*     helpers of lib/db-helpers.ts and the surfaces that talk to it,      *)
(*     specification SpecCoord.                                            *)
(***************************************************************************)
EXTENDS Integers, Sequences, FiniteSets, TLC

(***************************************************************************)
(* Bounds of the model.                                                    *)
(***************************************************************************)
MaxNodes == 3
MaxLen == 2
MaxMutations == 1

Chars == {"a", " "}
\* tag and id attribute of the elements a page is built from
ElemKinds == {<<"p", "">>, <<"b", "">>, <<"p", "x">>}

CONTEXT_LENGTH == 50

\* coordinator scenario: documents, requests, clock ticks, store failures
MaxDocs == 2
MaxReq == 2
MaxOrderReq == 3
MaxClock == 2
MaxFailures == 1
MaxMarks == 2
MaxCreateNodes == 2

(***************************************************************************)
(* Generic helpers.                                                        *)
(***************************************************************************)
Min(S) == CHOOSE x \in S : \A y \in S : x <= y

Max2(a, b) == IF a >= b THEN a ELSE b

Min2(a, b) == IF a <= b THEN a ELSE b

RECURSIVE SetToSeq(_)
SetToSeq(S) == IF S = {} THEN <<>> ELSE <<Min(S)>> \o SetToSeq(S \ {Min(S)})

RECURSIVE SumTo(_, _)
SumTo(f, n) == IF n = 0 THEN 0 ELSE f[n] + SumTo(f, n - 1)

StrsOfLen(n) == [1..n -> Chars]

Strs == UNION {StrsOfLen(n) : n \in 1..MaxLen}

(***************************************************************************)
(* The document tree under document.body.  A tree is the sequence of its   *)
(* nodes in document order (preorder); node 0 is document.body itself.     *)
(* Every node records its parent, so the children of a node are the nodes  *)
(* that name it as parent, in index order.                                 *)
(***************************************************************************)
\* data-highlight-id of an element that is no marker
NoMark == 0 - 1

TextNode(d, p) ==
    [kind |-> "text", tag |-> "", id |-> "", data |-> d, parent |-> p, mark |-> NoMark]

ElemNode(g, i, p) ==
    [kind |-> "elem", tag |-> g, id |-> i, data |-> <<>>, parent |-> p, mark |-> NoMark]

Idx(t) == 1..Len(t)

IsText(t, n) == IF n = 0 THEN FALSE ELSE t[n].kind = "text"

IsElem(t, n) == IF n = 0 THEN TRUE ELSE t[n].kind = "elem"

RECURSIVE IsAncestorOrSelf(_, _, _)
IsAncestorOrSelf(t, a, n) ==
    IF a = n THEN TRUE
    ELSE IF n = 0 THEN FALSE
    ELSE IsAncestorOrSelf(t, a, t[n].parent)

childNodes(t, p) == SetToSeq({i \in Idx(t) : t[i].parent = p})

\* parents a node appended at the end of the preorder may hang under
OpenParents(t) ==
    IF Len(t) = 0 THEN {0}
    ELSE {a \in 0..Len(t) : IsElem(t, a) /\ IsAncestorOrSelf(t, a, Len(t))}

NewNodes(t) ==
    {TextNode(d, p) : d \in Strs, p \in OpenParents(t)}
      \cup {ElemNode(e[1], e[2], p) : e \in ElemKinds, p \in OpenParents(t)}

RECURSIVE TreesOfSize(_)
TreesOfSize(n) ==
    IF n = 0 THEN {<<>>}
    ELSE UNION {{Append(t, nd) : nd \in NewNodes(t)} : t \in TreesOfSize(n - 1)}

Trees == UNION {TreesOfSize(n) : n \in 1..MaxNodes}

(***************************************************************************)
(* Boundary points and ranges.  The tree is read as a token stream: every  *)
(* node contributes an opening token, its characters or its children, and  *)
(* a closing token.  A boundary point (node, offset) is the gap before the *)
(* token it designates; DOM tree order of boundary points is the order of  *)
(* these gaps, and the text of a range is the characters between them.     *)
(***************************************************************************)
nodeLength(t, n) ==
    IF IsText(t, n) THEN Len(t[n].data)
    ELSE Cardinality({i \in Idx(t) : t[i].parent = n})

OpenPos(t, n) ==
    IF n = 0 THEN 0
    ELSE 1 + SumTo([j \in 1..(n - 1) |->
                     1 + Len(t[j].data)
                       + (IF IsAncestorOrSelf(t, j, n) THEN 0 ELSE 1)], n - 1)

ClosePos(t, n) ==
    IF n = 0 THEN 1 + SumTo([j \in Idx(t) |-> 2 + Len(t[j].data)], Len(t))
    ELSE OpenPos(t, n) + 1 + Len(t[n].data)
           + SumTo([j \in Idx(t) |->
                     IF j # n /\ IsAncestorOrSelf(t, n, j)
                     THEN 2 + Len(t[j].data) ELSE 0], Len(t))

BoundaryPos(t, n, off) ==
    IF IsText(t, n) THEN OpenPos(t, n) + 1 + off
    ELSE LET ks == childNodes(t, n)
         IN IF off < Len(ks) THEN OpenPos(t, ks[off + 1]) ELSE ClosePos(t, n)

NoRange == [isNull |-> TRUE]

MkRange(sc, so, ec, eo) ==
    [isNull |-> FALSE, startContainer |-> sc, startOffset |-> so,
     endContainer |-> ec, endOffset |-> eo]

StartPos(t, r) == BoundaryPos(t, r.startContainer, r.startOffset)

EndPos(t, r) == BoundaryPos(t, r.endContainer, r.endOffset)

collapsed(t, r) == StartPos(t, r) = EndPos(t, r)

\* every live range the user can hold on the tree: start not after end
Ranges(t) ==
    {r \in {MkRange(sc, so, ec, eo) :
              sc \in 0..Len(t), so \in 0..Max2(MaxLen, Len(t)),
              ec \in 0..Len(t), eo \in 0..Max2(MaxLen, Len(t))} :
       /\ r.startOffset <= nodeLength(t, r.startContainer)
       /\ r.endOffset <= nodeLength(t, r.endContainer)
       /\ StartPos(t, r) <= EndPos(t, r)}

\* Range.toString(): the characters of the text nodes between the boundaries
RECURSIVE CharsBetween(_, _, _, _)
CharsBetween(t, n, lo, hi) ==
    IF n > Len(t) THEN <<>>
    ELSE (IF IsText(t, n)
          THEN LET o == OpenPos(t, n)
               IN SelectSeq([j \in 1..Len(t[n].data) |-> <<o + j, t[n].data[j]>>],
                            LAMBDA c : lo <= c[1] /\ c[1] < hi)
          ELSE <<>>) \o CharsBetween(t, n + 1, lo, hi)

rangeToString(t, r) ==
    LET cs == CharsBetween(t, 1, StartPos(t, r), EndPos(t, r))
    IN [j \in 1..Len(cs) |-> cs[j][2]]

\* String.prototype.trim() over the model's alphabet
RECURSIVE trimStart(_)
trimStart(s) == IF s # <<>> /\ Head(s) = " " THEN trimStart(Tail(s)) ELSE s

RECURSIVE trimEnd(_)
trimEnd(s) ==
    IF s # <<>> /\ s[Len(s)] = " " THEN trimEnd(SubSeq(s, 1, Len(s) - 1)) ELSE s

\* a trim that trims nothing
trim_M(s) == s

trim(s) == trimEnd(trimStart(s))

substring(s, from, to) == SubSeq(s, from + 1, to)

(***************************************************************************)
(* services/highlight-manager.ts: XPath of a node and its evaluation.      *)
(***************************************************************************)
\* 1 + the number of preceding siblings of the same kind (same tag for an
\* element, any text node for a text node)
SiblingIndex(t, n) ==
    1 + Cardinality({j \in 1..(n - 1) :
                       /\ t[j].parent = t[n].parent
                       /\ t[j].kind = t[n].kind
                       /\ t[j].tag = t[n].tag})

StepOf(t, n) ==
    [name |-> IF IsText(t, n) THEN "text()" ELSE t[n].tag,
     index |-> SiblingIndex(t, n)]

RECURSIVE PathSteps(_, _)
PathSteps(t, n) ==
    IF n = 0 THEN <<>> ELSE Append(PathSteps(t, t[n].parent), StepOf(t, n))

getXPath(t, n) ==
    IF n # 0 /\ IsElem(t, n) /\ t[n].id # ""
    THEN [form |-> "id", id |-> t[n].id, steps |-> <<>>]
    ELSE [form |-> "path", id |-> "", steps |-> PathSteps(t, n)]

\* node n is selected by the location path  //steps[1]/.../steps[k]
RECURSIVE MatchesSteps(_, _, _, _)
MatchesSteps(t, n, steps, k) ==
    /\ n # 0
    /\ StepOf(t, n) = steps[k]
    /\ (k = 1 \/ MatchesSteps(t, t[n].parent, steps, k - 1))

NullNode == 0 - 1

ThrownNode == 0 - 2

\* document.evaluate(xpath, document, null, FIRST_ORDERED_NODE_TYPE):
\* the first match in document order, null, or a thrown syntax error ("//")
getNodeByXPath(t, xp) ==
    IF xp.form = "id"
    THEN LET hits == {n \in Idx(t) : IsElem(t, n) /\ t[n].id = xp.id}
         IN IF hits = {} THEN NullNode ELSE Min(hits)
    ELSE IF xp.steps = <<>> THEN ThrownNode
    ELSE LET hits == {n \in Idx(t) : MatchesSteps(t, n, xp.steps, Len(xp.steps))}
         IN IF hits = {} THEN NullNode ELSE Min(hits)

(***************************************************************************)
(* services/highlight-manager.ts: Serialize.                               *)
(***************************************************************************)
TotalTextLength(t) == SumTo([j \in Idx(t) |-> Len(t[j].data)], Len(t))

getTextOffset(t, node, offset) ==
    IF IsText(t, node)
    THEN SumTo([j \in 1..(node - 1) |-> Len(t[j].data)], node - 1) + offset
    ELSE TotalTextLength(t)

getContext(t, r) ==
    [prefix |-> IF IsText(t, r.startContainer)
                THEN substring(t[r.startContainer].data,
                               Max2(0, r.startOffset - CONTEXT_LENGTH), r.startOffset)
                ELSE <<>>,
     suffix |-> IF IsText(t, r.endContainer)
                THEN substring(t[r.endContainer].data, r.endOffset,
                               Min2(Len(t[r.endContainer].data),
                                    r.endOffset + CONTEXT_LENGTH))
                ELSE <<>>]

NoAnchor == [isNull |-> TRUE]

\* the lowest common ancestor of the two containers
commonAncestorContainer(t, r) ==
    CHOOSE a \in 0..Len(t) :
      /\ IsAncestorOrSelf(t, a, r.startContainer)
      /\ IsAncestorOrSelf(t, a, r.endContainer)
      /\ \A b \in 0..Len(t) :
           (IsAncestorOrSelf(t, b, r.startContainer)
              /\ IsAncestorOrSelf(t, b, r.endContainer)) => IsAncestorOrSelf(t, b, a)

serializeRange(t, r) ==
    LET quoteText == trim(rangeToString(t, r))
        ctx == getContext(t, r)
    IN IF quoteText = <<>> THEN NoAnchor
       ELSE [isNull |-> FALSE,
             start_offset |-> getTextOffset(t, r.startContainer, r.startOffset),
             end_offset |-> getTextOffset(t, r.endContainer, r.endOffset),
             start_context |-> ctx.prefix,
             end_context |-> ctx.suffix,
             range |-> [startContainer |-> getXPath(t, r.startContainer),
                        startOffset |-> r.startOffset,
                        endContainer |-> getXPath(t, r.endContainer),
                        endOffset |-> r.endOffset,
                        commonAncestor |-> getXPath(t, commonAncestorContainer(t, r))],
             quoteText |-> quoteText]

(***************************************************************************)
(* services/highlight-manager.ts: Resolve.                                 *)
(***************************************************************************)
\* Range.setStart followed by Range.setEnd on a fresh range: an end before
\* the start collapses the range onto the end point
setStartSetEnd(t, sn, so, en, eo) ==
    IF BoundaryPos(t, sn, so) > BoundaryPos(t, en, eo)
    THEN MkRange(en, eo, en, eo)
    ELSE MkRange(sn, so, en, eo)

\* what a call that throws out of deserializeRange leaves its caller with
RaisedRange == [isNull |-> TRUE, raised |-> TRUE]

\* Range.setStart / setEnd throw IndexSizeError for an offset outside the node
IndexSizeError(t, n, off) ==
    IF off < 0 THEN TRUE ELSE off > nodeLength(t, n)

\* the TreeWalker loop of findRangeAtOffset from node n on, with the
\* characters walked so far and the start position found so far
RECURSIVE FindLoop(_, _, _, _, _, _, _)
FindLoop(t, n, currentOffset, startNode, startNodeOffset, startOffset, length) ==
    IF n > Len(t) THEN NoRange
    ELSE IF ~IsText(t, n)
    THEN FindLoop(t, n + 1, currentOffset, startNode, startNodeOffset,
                  startOffset, length)
    ELSE LET nl == Len(t[n].data)
             hit == startNode = NullNode /\ currentOffset + nl > startOffset
             sn == IF hit THEN n ELSE startNode
             so == IF hit THEN startOffset - currentOffset ELSE startNodeOffset
         IN IF currentOffset + nl >= startOffset + length
            THEN IF sn = NullNode THEN NoRange
                 ELSE IF IndexSizeError(t, sn, so) THEN RaisedRange
                 ELSE IF IndexSizeError(t, n, startOffset + length - currentOffset)
                 THEN RaisedRange
                 ELSE setStartSetEnd(t, sn, so, n, startOffset + length - currentOffset)
            ELSE FindLoop(t, n + 1, currentOffset + nl, sn, so, startOffset, length)

\* a walk whose character count starts one too high
findRangeAtOffset_M(t, startOffset, length) ==
    FindLoop(t, 1, 1, NullNode, 0, startOffset, length)

findRangeAtOffset(t, startOffset, length) ==
    FindLoop(t, 1, 0, NullNode, 0, startOffset, length)

Resolution(r, tier) == [range |-> r, tier |-> tier]

OffsetReplay(t, anchor) ==
    Resolution(findRangeAtOffset(t, anchor.start_offset,
                                 anchor.end_offset - anchor.start_offset), 2)

\* tier 1 of deserializeRange: the range replayed from the stored XPaths, or
\* NoRange when a node is missing, a call throws or the text does not match
StructuralReplay(t, anchor) ==
    LET ser == anchor.range
        startNode == getNodeByXPath(t, ser.startContainer)
        endNode == getNodeByXPath(t, ser.endContainer)
    IN IF startNode = ThrownNode \/ endNode = ThrownNode THEN NoRange
       ELSE IF startNode = NullNode \/ endNode = NullNode THEN NoRange
       ELSE IF ser.startOffset > nodeLength(t, startNode)
                 \/ ser.endOffset > nodeLength(t, endNode) THEN NoRange
       ELSE LET r == setStartSetEnd(t, startNode, ser.startOffset,
                                    endNode, ser.endOffset)
            IN IF anchor.quoteText # <<>>
                    /\ trim(rangeToString(t, r)) = trim(anchor.quoteText)
               THEN r ELSE NoRange

deserializeRange(t, anchor) ==
    LET r1 == StructuralReplay(t, anchor)
    IN IF ~r1.isNull THEN Resolution(r1, 1) ELSE OffsetReplay(t, anchor)

(***************************************************************************)
(* A mutation of the page between Serialize and Resolve: some script       *)
(* inserts a leaf node as child number k + 1 of parent p.                  *)
(***************************************************************************)
LastInSubtree(t, p) ==
    CHOOSE j \in 0..Len(t) :
      /\ IsAncestorOrSelf(t, p, j)
      /\ \A i \in 0..Len(t) : IsAncestorOrSelf(t, p, i) => i <= j

InsertLeaf(t, p, k, nd) ==
    LET ks == childNodes(t, p)
        pos == IF k < Len(ks) THEN ks[k + 1] ELSE LastInSubtree(t, p) + 1
    IN [j \in 1..(Len(t) + 1) |->
          IF j < pos THEN t[j]
          ELSE IF j = pos THEN [nd EXCEPT !.parent = p]
          ELSE [t[j - 1] EXCEPT !.parent = IF @ >= pos THEN @ + 1 ELSE @]]

\* the nodes a page script inserts: a one-character text node or a bare element
Leaves == {TextNode(d, 0) : d \in StrsOfLen(1)}
            \cup {ElemNode(e[1], e[2], 0) : e \in {k \in ElemKinds : k[2] = ""}}

(***************************************************************************)
(* services/highlight-manager.ts: Paint.  renderHighlight wraps the range  *)
(* in a span, by Range.surroundContents or, when that throws, by           *)
(* extractContents and insertNode.  On the token stream both do the same:  *)
(* every node the start lies in is closed before the span and reopened as  *)
(* a clone inside it, every node the end lies in is closed as a clone      *)
(* inside the span and its original continues after it.                    *)
(***************************************************************************)
\* the gap g lies between the opening and the closing token of node n
Inside(t, n, g) == OpenPos(t, n) < g /\ g <= ClosePos(t, n)

\* the element the span becomes a child of
SpanParent(t, r) ==
    LET ca == commonAncestorContainer(t, r)
    IN IF IsText(t, ca) THEN t[ca].parent ELSE ca

\* partially contained on the start side / on the end side
StartSide(t, r, n) ==
    Inside(t, n, StartPos(t, r)) /\ (IsText(t, n) \/ ~Inside(t, n, EndPos(t, r)))

EndSide(t, r, n) ==
    Inside(t, n, EndPos(t, r)) /\ (IsText(t, n) \/ ~Inside(t, n, StartPos(t, r)))

\* Range.surroundContents throws when a non-Text node is partially contained
surroundContentsThrows(t, r) ==
    \E n \in Idx(t) : IsElem(t, n) /\ (StartSide(t, r, n) \/ EndSide(t, r, n))

Entry(n, role, pn, prole, node) ==
    [key |-> <<n, role>>, pkey |-> <<pn, prole>>, node |-> node]

\* what stays before the span: the nodes opened before the start
BeforeSpan(t, r) ==
    LET ns == SetToSeq({n \in Idx(t) : OpenPos(t, n) < StartPos(t, r)})
    IN [j \in 1..Len(ns) |->
          LET n == ns[j]
          IN Entry(n, "o", t[n].parent, "o",
                   IF IsText(t, n) /\ StartSide(t, r, n)
                   THEN [t[n] EXCEPT !.data = SubSeq(@, 1, r.startOffset)]
                   ELSE t[n])]

SpanEntry(t, r, id) ==
    <<Entry(0, "s", SpanParent(t, r), "o",
            [ElemNode("span", "", 0) EXCEPT !.mark = id])>>

InSpanParent(t, r, n) ==
    IF t[n].parent = SpanParent(t, r) THEN <<0, "s">> ELSE <<t[n].parent, "c">>

\* the clones of the nodes the start lies in
StartClones(t, r) ==
    LET ns == SetToSeq({n \in Idx(t) : StartSide(t, r, n)})
    IN [j \in 1..Len(ns) |->
          LET n == ns[j]
              pk == InSpanParent(t, r, n)
          IN Entry(n, "c", pk[1], pk[2],
                   IF IsText(t, n)
                   THEN [t[n] EXCEPT !.data =
                           SubSeq(@, r.startOffset + 1,
                                  IF n = r.endContainer THEN r.endOffset ELSE Len(@))]
                   ELSE t[n])]

\* the contained nodes, moved, and the clones of the nodes the end lies in
Contained(t, r) ==
    LET ns == SetToSeq({n \in Idx(t) : /\ OpenPos(t, n) >= StartPos(t, r)
                                       /\ OpenPos(t, n) < EndPos(t, r)})
    IN [j \in 1..Len(ns) |->
          LET n == ns[j]
              pk == InSpanParent(t, r, n)
          IN Entry(n, "c", pk[1], pk[2],
                   IF IsText(t, n) /\ EndSide(t, r, n)
                   THEN [t[n] EXCEPT !.data = SubSeq(@, 1, r.endOffset)]
                   ELSE t[n])]

\* the originals of the nodes the end lies in, continuing after the span
EndTails(t, r) ==
    LET ns == SetToSeq({n \in Idx(t) : EndSide(t, r, n)})
    IN [j \in 1..Len(ns) |->
          LET n == ns[j]
          IN Entry(n, "t", t[n].parent,
                   IF t[n].parent = SpanParent(t, r) THEN "o" ELSE "t",
                   IF IsText(t, n)
                   THEN [t[n] EXCEPT !.data = SubSeq(@, r.endOffset + 1, Len(@))]
                   ELSE t[n])]

AfterSpan(t, r) ==
    LET ns == SetToSeq({n \in Idx(t) : OpenPos(t, n) >= EndPos(t, r)})
    IN [j \in 1..Len(ns) |->
          LET n == ns[j]
          IN Entry(n, "o", t[n].parent,
                   IF t[n].parent = 0 THEN "o"
                   ELSE IF EndSide(t, r, t[n].parent) THEN "t" ELSE "o",
                   t[n])]

\* the entries as a tree: every parent key replaced by its index
Linked(es) ==
    [j \in 1..Len(es) |->
       [es[j].node EXCEPT !.parent =
          IF es[j].pkey = <<0, "o">> THEN 0
          ELSE CHOOSE i \in 1..Len(es) : es[i].key = es[j].pkey]]

WrapRange(t, r, id) ==
    Linked(BeforeSpan(t, r) \o SpanEntry(t, r, id) \o StartClones(t, r)
             \o Contained(t, r) \o EndTails(t, r) \o AfterSpan(t, r))

\* range.surroundContents(span) when it does not throw
surroundContents(t, r, id) == WrapRange(t, r, id)

\* the catch block: extractContents, span.appendChild, range.insertNode
extractAndInsert(t, r, id) == WrapRange(t, r, id)

\* a renderHighlight without the catch block: the throw leaves the tree as it is
renderHighlight_M(t, r, id) ==
    IF surroundContentsThrows(t, r) THEN t ELSE surroundContents(t, r, id)

renderHighlight(t, r, id) ==
    IF surroundContentsThrows(t, r)
    THEN extractAndInsert(t, r, id)
    ELSE surroundContents(t, r, id)

(***************************************************************************)
(* services/highlight-manager.ts: Unpaint.                                 *)
(***************************************************************************)
\* a removal that takes the children of e away with it
RemoveNode_M(t, e) ==
    LET keep == SetToSeq({n \in Idx(t) : ~IsAncestorOrSelf(t, e, n)})
    IN [j \in 1..Len(keep) |->
          [t[keep[j]] EXCEPT !.parent =
             Cardinality({k \in 1..Len(keep) : keep[k] <= @})]]

\* the tree without node e, the children of e promoted to its place
RemoveNode(t, e) ==
    [j \in 1..(Len(t) - 1) |->
       LET nd == IF j < e THEN t[j] ELSE t[j + 1]
       IN [nd EXCEPT !.parent = IF @ = e THEN t[e].parent
                                 ELSE IF @ > e THEN @ - 1 ELSE @]]

EmptyTexts(t, p) ==
    {n \in Idx(t) : IsText(t, n) /\ t[n].data = <<>> /\ n # p /\ IsAncestorOrSelf(t, p, n)}

\* text nodes below p directly followed by a text sibling
AdjacentTexts(t, p) ==
    {n \in Idx(t) : /\ n < Len(t)
                    /\ IsText(t, n)
                    /\ IsAncestorOrSelf(t, p, n)
                    /\ IsText(t, n + 1)
                    /\ t[n + 1].parent = t[n].parent}

\* Node.normalize() of p: no empty text node and no adjacent text nodes below p
RECURSIVE normalize(_, _)
normalize(t, p) ==
    IF EmptyTexts(t, p) # {}
    THEN normalize(RemoveNode(t, Min(EmptyTexts(t, p))), p)
    ELSE IF AdjacentTexts(t, p) # {}
    THEN LET n == Min(AdjacentTexts(t, p))
         IN normalize(RemoveNode([t EXCEPT ![n].data = @ \o t[n + 1].data], n + 1), p)
    ELSE t

Marked(t, id) == {n \in Idx(t) : t[n].mark = id}

Markers(t) == {n \in Idx(t) : t[n].mark # NoMark}

RECURSIVE removeHighlight(_, _)
removeHighlight(t, id) ==
    IF Marked(t, id) = {} THEN t
    ELSE LET e == Min(Marked(t, id))
         IN removeHighlight(normalize(RemoveNode(t, e), t[e].parent), id)

RECURSIVE removeAllHighlightElements(_)
removeAllHighlightElements(t) ==
    IF Markers(t) = {} THEN t
    ELSE removeAllHighlightElements(RemoveNode(t, Min(Markers(t))))

(***************************************************************************)
(* State.                                                                  *)
(***************************************************************************)
VARIABLES
    dom,          \* the document tree of the page
    selection,    \* the live range the user selected
    selText,      \* the text of the selection when it was made
    anchor,       \* result of serializeRange, NoAnchor if none
    resolved,     \* result of deserializeRange: range and tier
    cpc,          \* stage of the codec scenario
    mutations,    \* number of page mutations since Serialize
    before,       \* the tree before the marker was painted
    painted,      \* the identifier the painted marker carries, NoMark if none
    highlights,   \* db.highlights: the stored Highlight rows
    notes,        \* db.notes: the stored Note rows
    syncState,    \* db.syncState: the dirty markers
    clock,        \* Date.now() of the service worker
    usedIds,      \* identifiers crypto.randomUUID() has handed out
    procs,        \* the running and finished request handlers, by request number
    resp,         \* the response passed to sendResponse, by request number
    events,       \* notifications sent between the surfaces
    accessors,    \* who has called the store helpers so far
    overlapped,   \* a handler touched the store while another was mid-way
    failures,     \* store operations that have failed so far
    budget,       \* requests the surfaces may still send in this run
    views,        \* the open views of documents and the markers each one shows
    documents,    \* db.documents: the stored Document rows
    banner,       \* the calls of showOptInBanner in one page, in order
    sidePanelState \* the service worker's map of tabs whose side panel is open

codecVars == <<dom, selection, selText, anchor, resolved, cpc, mutations, before,
              painted>>

coordVars == <<highlights, notes, syncState, clock, usedIds, procs, resp, events,
               accessors, overlapped, failures, budget>>

auxVars == <<views, documents, banner, sidePanelState>>

vars == <<codecVars, coordVars, auxVars>>

(***************************************************************************)
(* The record store (lib/db-helpers.ts over Dexie) and the requests of the *)
(* service worker's chrome.runtime.onMessage listener.  Identifiers are    *)
(* numbers; 0 stands for an undefined field.                               *)
(***************************************************************************)
Docs == 1..MaxDocs

Ids == 1..(MaxOrderReq + 3)

Surfaces == {"page", "pdf", "panel"}

\* the surfaces that reach the service worker through chrome.runtime.sendMessage
Senders == {"page", "pdf"}

\* message.payload of PERSIST_HIGHLIGHT as far as the rows keep it; a message
\* without payload leaves both fields undefined
Payload(a, quote) == [anchor |-> a, quote_text |-> quote]

NoPayload == Payload(NoAnchor, <<>>)

\* the payload of a highlight of the one-word page "a"
SomePayload ==
    Payload(serializeRange(<<TextNode(<<"a">>, 0)>>, MkRange(1, 0, 1, 1)), <<"a">>)

Highlight(id, doc, now, payload) ==
    [id |-> id, document_id |-> doc, created_at |-> now,
     anchor |-> payload.anchor, quote_text |-> payload.quote_text]

Note(id, doc, hid, now) ==
    [id |-> id, document_id |-> doc, highlight_id |-> hid, created_at |-> now]

SyncRow(type, id) == [entity_type |-> type, entity_id |-> id, is_dirty |-> TRUE]

\* count is the number of calls of sendResponse for the request; the sender
\* gets the argument of the first call
NoResponse == [kind |-> "none", id |-> 0, list |-> <<>>, count |-> 0]

Response(kind, id, list) == [kind |-> kind, id |-> id, list |-> list, count |-> 1]

\* a catch block that reports success
ErrorResponse_M == Response("success", 0, <<>>)

\* sendResponse({ error: error.message }) of every catch block
ErrorResponse == Response("error", 0, <<>>)

\* sendResponse({ received: true }) of the pass-through at the listener's end
PassThroughResponse == Response("received", 0, <<>>)

Proc(by, sender, type, doc, hid, nid, bad, pc, id, now, seen) ==
    [by |-> by, sender |-> sender, type |-> type, doc |-> doc, hid |-> hid,
     nid |-> nid, bad |-> bad, pc |-> pc, id |-> id, now |-> now,
     existing |-> FALSE, failed |-> FALSE, wrote |-> FALSE, ops |-> 0,
     seen |-> seen, told |-> FALSE, after |-> failures, source |-> 0,
     payload |-> IF bad THEN NoPayload ELSE SomePayload]

Rids == 1..Len(procs)

\* crypto.randomUUID(): an identifier not handed out before, below or above
\* the ones in use (the order of UUIDs is arbitrary)
FreshIds ==
    LET free == Ids \ usedIds
    IN IF free = {} THEN {} ELSE {Min(free), CHOOSE x \in free : \A y \in free : y <= x}

\* new Date(): the clock may have advanced since the last reading
Nows == {n \in {clock, clock + 1} : n <= MaxClock}

\* highlight identifiers whose persistHighlight response has been delivered
AckedHighlights ==
    {resp[r].id : r \in {q \in Rids : procs[q].type = "PERSIST_HIGHLIGHT"
                                         /\ resp[q].kind = "id"}}

\* the pcs at which a helper has touched the store and will touch it again
MidPcs == {"markDirty_read", "markDirty_write", "delete_highlight", "delete_sync"}

Mid(r) == procs[r].by = "coordinator" /\ procs[r].pc \in MidPcs

\* bookkeeping of one store access by handler r
Access(r) ==
    /\ accessors' = accessors \cup {procs[r].by}
    /\ overlapped' = (overlapped
                        \/ (procs[r].by = "coordinator"
                              /\ \E q \in Rids : q # r /\ Mid(q)))

\* rows of S as a sequence ordered by created_at (Dexie's sortBy over the
\* index order, which is the order of the primary key)
RECURSIVE sortBy(_)
sortBy(S) ==
    IF S = {} THEN <<>>
    ELSE LET first == CHOOSE x \in S : \A y \in S :
                          \/ x.created_at < y.created_at
                          \/ (x.created_at = y.created_at /\ x.id <= y.id)
         IN <<first>> \o sortBy(S \ {first})

\* a listing that forgets the where('document_id') clause
getHighlightsByDocument_M(documentId) == sortBy(highlights)

getHighlightsByDocument(documentId) ==
    sortBy({h \in highlights : h.document_id = documentId})

\* the store a session starts with: empty, or holding what earlier sessions
\* have persisted (a highlight with a note, and a free-standing note)
InitialStores ==
    {[h |-> {}, n |-> {}, s |-> {}, used |-> {}],
     [h |-> {Highlight(1, 1, 0, SomePayload)},
      n |-> {Note(2, 1, 1, 0), Note(3, 1, 0, 0)},
      s |-> {SyncRow("highlight", 1), SyncRow("note", 2), SyncRow("note", 3)},
      used |-> {1, 2, 3}]}

CoordIdle ==
    /\ highlights = {}
    /\ notes = {}
    /\ syncState = {}
    /\ clock = 0
    /\ usedIds = {}
    /\ procs = <<>>
    /\ resp = <<>>
    /\ events = {}
    /\ accessors = {}
    /\ overlapped = FALSE
    /\ failures = 0
    /\ budget = 0

CodecIdle ==
    /\ dom = <<>>
    /\ selection = MkRange(0, 0, 0, 0)
    /\ selText = <<>>
    /\ anchor = NoAnchor
    /\ resolved = Resolution(NoRange, 0)
    /\ cpc = "idle"
    /\ mutations = 0
    /\ before = <<>>
    /\ painted = NoMark

\* no view is open, no Document is stored, showOptInBanner was never called
NoBanner == <<>>

AuxIdle ==
    /\ views = <<>>
    /\ documents = {}
    /\ banner = NoBanner
    /\ sidePanelState = {}

InitCoord ==
    /\ CodecIdle
    /\ AuxIdle
    /\ \E st \in InitialStores :
         /\ highlights = st.h
         /\ notes = st.n
         /\ syncState = st.s
         /\ usedIds = st.used
    /\ clock = 0
    /\ procs = <<>>
    /\ resp = <<>>
    /\ events = {}
    /\ accessors = {}
    /\ overlapped = FALSE
    /\ failures = 0
    /\ budget = MaxReq

\* only highlights are created and listed, by one request more
InitOrder ==
    /\ CodecIdle
    /\ AuxIdle
    /\ highlights = {}
    /\ notes = {}
    /\ syncState = {}
    /\ usedIds = {}
    /\ clock = 0
    /\ procs = <<>>
    /\ resp = <<>>
    /\ events = {}
    /\ accessors = {}
    /\ overlapped = FALSE
    /\ failures = 0
    /\ budget = MaxOrderReq

InitCodec ==
    /\ dom \in Trees
    /\ selection \in Ranges(dom)
    /\ selText = rangeToString(dom, selection)
    /\ anchor = NoAnchor
    /\ resolved = Resolution(NoRange, 0)
    /\ cpc = "selected"
    /\ mutations = 0
    /\ before = <<>>
    /\ painted = NoMark
    /\ CoordIdle
    /\ AuxIdle

\* createHighlightFromSelection up to the anchor: a collapsed range and a
\* range serializeRange rejects end the attempt
Serialize ==
    /\ cpc = "selected"
    /\ anchor' = IF collapsed(dom, selection) THEN NoAnchor
                 ELSE serializeRange(dom, selection)
    /\ cpc' = IF anchor'.isNull THEN "rejected" ELSE "serialized"
    /\ UNCHANGED <<dom, selection, selText, resolved, mutations, before, painted,
                   coordVars, auxVars>>

Mutate ==
    /\ cpc = "serialized"
    /\ mutations < MaxMutations
    /\ \E p \in 0..Len(dom), nd \in Leaves :
         /\ IsElem(dom, p)
         /\ \E k \in 0..nodeLength(dom, p) : dom' = InsertLeaf(dom, p, k, nd)
    /\ mutations' = mutations + 1
    /\ UNCHANGED <<selection, selText, anchor, resolved, cpc, before, painted,
                   coordVars, auxVars>>

\* restoreHighlights' call of deserializeRange on the current tree
Resolve ==
    /\ cpc = "serialized"
    /\ resolved' = deserializeRange(dom, anchor)
    /\ cpc' = "resolved"
    /\ UNCHANGED <<dom, selection, selText, anchor, mutations, before, painted,
                   coordVars, auxVars>>

NextCodec == Serialize \/ Mutate \/ Resolve

SpecCodec == InitCodec /\ [][NextCodec]_vars

ResolvedText == rangeToString(dom, resolved.range)

\* C1: on an unmutated tree, resolving the anchor of a selection yields a
\* range, never null, whose text is exactly the text of the selection.
C1_RoundTrip ==
    (cpc = "resolved" /\ mutations = 0) =>
        (~resolved.range.isNull /\ ResolvedText = selText)

\* C2: a range returned by Resolve, at whatever tier, has text equal to
\* the anchor's quoteText once both are stripped.
C2_ExactnessBackstop ==
    (cpc = "resolved" /\ ~resolved.range.isNull) =>
        trim(ResolvedText) = trim(anchor.quoteText)

\* the in-order text of the whole tree
RECURSIVE textContent(_, _)
textContent(t, n) ==
    IF n > Len(t) THEN <<>>
    ELSE (IF IsText(t, n) THEN t[n].data ELSE <<>>) \o textContent(t, n + 1)

Contains(s, sub) ==
    \E i \in 0..(Len(s) - Len(sub)) : SubSeq(s, i + 1, i + Len(sub)) = sub

\* the quote with its stored context still occurs in the text of the tree
Findable(t, a) ==
    Contains(textContent(t, 1), a.start_context \o a.quoteText \o a.end_context)

\* C10: when structural replay fails on a mutated tree and the quote with
\* its context is still findable, Resolve returns a range whose text is the
\* quote, found by tier 2 or tier 3, by tier 2 if offset replay gives the quote.
C10_FallbackOrdering ==
    (/\ cpc = "resolved"
     /\ mutations > 0
     /\ StructuralReplay(dom, anchor).isNull
     /\ Findable(dom, anchor)) =>
        (/\ ~resolved.range.isNull
         /\ trim(ResolvedText) = trim(anchor.quoteText)
         /\ resolved.tier \in {2, 3}
         /\ (LET r2 == OffsetReplay(dom, anchor).range
             IN (~r2.isNull /\ trim(rangeToString(dom, r2)) = trim(anchor.quoteText))
                  => resolved.tier = 2))

\* a range whose boundary points lie in the tree, start not after end
IsLiveRange(t, r) ==
    /\ r.startContainer \in 0..Len(t)
    /\ r.endContainer \in 0..Len(t)
    /\ ~IndexSizeError(t, r.startContainer, r.startOffset)
    /\ ~IndexSizeError(t, r.endContainer, r.endOffset)
    /\ StartPos(t, r) <= EndPos(t, r)

Start(p) ==
    /\ budget > 0
    /\ budget' = budget - 1
    /\ procs' = Append(procs, p)
    /\ resp' = Append(resp, IF p.pc = "done" THEN PassThroughResponse ELSE NoResponse)

KnownHighlights == {h.id : h \in highlights} \cup AckedHighlights

OnPersistHighlight ==
    \E sender \in Senders, doc \in Docs \cup {0}, id \in FreshIds, now \in Nows :
      /\ Start(Proc("coordinator", sender, "PERSIST_HIGHLIGHT", doc, 0, 0, doc = 0,
                    "add_highlight", id, now, {}))
      /\ usedIds' = usedIds \cup {id}
      /\ clock' = now
      /\ UNCHANGED <<auxVars, codecVars, highlights, notes, syncState, events, accessors,
                     overlapped, failures>>

OnGetHighlightsByDocument ==
    \E sender \in Senders, doc \in Docs \cup {0} :
      /\ Start(Proc("coordinator", sender, "GET_HIGHLIGHTS_BY_DOCUMENT", doc, 0, 0,
                    doc = 0, "query", 0, 0, AckedHighlights))
      /\ UNCHANGED <<auxVars, codecVars, highlights, notes, syncState, clock, usedIds, events,
                     accessors, overlapped, failures>>

OnPersistNote ==
    \E sender \in Senders, doc \in Docs \cup {0}, hid \in KnownHighlights \cup {0},
       id \in FreshIds, now \in Nows :
      /\ doc = 0 => hid = 0
      /\ Start(Proc("coordinator", sender, "PERSIST_NOTE", doc, hid, 0, doc = 0,
                    "add_note", id, now, {}))
      /\ usedIds' = usedIds \cup {id}
      /\ clock' = now
      /\ UNCHANGED <<auxVars, codecVars, highlights, notes, syncState, events, accessors,
                     overlapped, failures>>

OnDeleteHighlight ==
    \E sender \in Senders, hid \in KnownHighlights \cup {0} :
      /\ Start(Proc("coordinator", sender, "DELETE_HIGHLIGHT", 0, hid, 0, hid = 0,
                    "delete_notes", 0, 0, {}))
      /\ UNCHANGED <<auxVars, codecVars, highlights, notes, syncState, clock, usedIds, events,
                     accessors, overlapped, failures>>

OnDeleteNote ==
    \E sender \in Senders, nid \in {n.id : n \in notes} \cup {0} :
      /\ Start(Proc("coordinator", sender, "DELETE_NOTE", 0, 0, nid, nid = 0,
                    "delete_note", 0, 0, {}))
      /\ UNCHANGED <<auxVars, codecVars, highlights, notes, syncState, clock, usedIds, events,
                     accessors, overlapped, failures>>

\* any other message type falls through to sendResponse({ received: true })
OnPassThrough ==
    \E sender \in Senders :
      /\ Start(Proc("coordinator", sender, "UNKNOWN_KIND", 0, 0, 0, TRUE,
                    "done", 0, 0, {}))
      /\ UNCHANGED <<auxVars, codecVars, highlights, notes, syncState, clock, usedIds, events,
                     accessors, overlapped, failures>>

(***************************************************************************)
(* lib/db-helpers.ts: the awaited store operations of the helpers.         *)
(***************************************************************************)
Step(r, pc, wrote) ==
    procs' = [procs EXCEPT ![r].pc = pc, ![r].wrote = @ \/ wrote, ![r].ops = @ + 1]

\* the handler's sendResponse; the side panel's direct helper calls have none
Reply(r, answer) ==
    resp' = IF procs[r].by = "coordinator" THEN [resp EXCEPT ![r] = answer] ELSE resp

EntityType(r) ==
    IF procs[r].type \in {"PERSIST_HIGHLIGHT", "DELETE_HIGHLIGHT"} THEN "highlight"
    ELSE IF procs[r].type = "CREATE_DOCUMENT" THEN "document"
    ELSE "note"

EntityId(r) ==
    IF procs[r].type \in {"PERSIST_HIGHLIGHT", "PERSIST_NOTE", "CREATE_DOCUMENT"}
    THEN procs[r].id
    ELSE IF procs[r].type = "DELETE_HIGHLIGHT" THEN procs[r].hid
    ELSE procs[r].nid

AddHighlight(r) ==
    /\ procs[r].pc = "add_highlight"
    /\ highlights' = highlights \cup {Highlight(procs[r].id, procs[r].doc, procs[r].now,
                                               procs[r].payload)}
    /\ Step(r, "markDirty_read", TRUE)
    /\ Access(r)
    /\ UNCHANGED <<auxVars, codecVars, budget, notes, syncState, clock, usedIds, resp, events, failures>>

AddNote(r) ==
    /\ procs[r].pc = "add_note"
    /\ notes' = notes \cup {Note(procs[r].id, procs[r].doc, procs[r].hid, procs[r].now)}
    /\ Step(r, "markDirty_read", TRUE)
    /\ Access(r)
    /\ UNCHANGED <<auxVars, codecVars, budget, highlights, syncState, clock, usedIds, resp, events,
                   failures>>

MarkDirtyRead(r) ==
    /\ procs[r].pc = "markDirty_read"
    /\ procs' = [procs EXCEPT ![r].pc = "markDirty_write", ![r].ops = @ + 1,
                   ![r].existing = \E m \in syncState :
                       m.entity_type = EntityType(r) /\ m.entity_id = EntityId(r)]
    /\ Access(r)
    /\ UNCHANGED <<auxVars, codecVars, budget, highlights, notes, syncState, clock, usedIds, resp,
                   events, failures>>

\* markDirty's update or add, then the helper returns and the handler answers
\* { id }; adding a key that exists is Dexie's ConstraintError
MarkDirtyWrite(r) ==
    /\ procs[r].pc = "markDirty_write"
    /\ LET row == SyncRow(EntityType(r), EntityId(r))
           clash == ~procs[r].existing /\ row \in syncState
       IN /\ syncState' = IF clash THEN syncState ELSE syncState \cup {row}
          /\ procs' = [procs EXCEPT ![r].pc = "done", ![r].ops = @ + 1,
                         ![r].wrote = TRUE, ![r].failed = clash]
          /\ Reply(r, IF clash THEN ErrorResponse
                      ELSE IF procs[r].type = "CREATE_DOCUMENT"
                      THEN Response("documentId", procs[r].id, <<>>)
                      ELSE Response("id", procs[r].id, <<>>))
    /\ Access(r)
    /\ UNCHANGED <<auxVars, codecVars, budget, highlights, notes, clock, usedIds, events, failures>>

\* where('document_id').equals(documentId).sortBy('created_at'); an undefined
\* key makes Dexie reject, which the handler's catch answers
QueryHighlights(r) ==
    /\ procs[r].pc = "query"
    /\ Step(r, "done", FALSE)
    /\ Reply(r, IF procs[r].doc = 0 THEN ErrorResponse
                ELSE Response("highlights", 0, getHighlightsByDocument(procs[r].doc)))
    /\ Access(r)
    /\ UNCHANGED <<auxVars, codecVars, budget, highlights, notes, syncState, clock, usedIds, events,
                   failures>>

DeleteNotesOfHighlight(r) ==
    /\ procs[r].pc = "delete_notes"
    /\ IF procs[r].hid = 0
       THEN /\ Step(r, "done", FALSE)
            /\ Reply(r, ErrorResponse)
            /\ notes' = notes
       ELSE /\ Step(r, "delete_highlight",
                    \E n \in notes : n.highlight_id = procs[r].hid)
            /\ resp' = resp
            /\ notes' = {n \in notes : n.highlight_id # procs[r].hid}
    /\ Access(r)
    /\ UNCHANGED <<auxVars, codecVars, budget, highlights, syncState, clock, usedIds, events, failures>>

DeleteHighlightRow(r) ==
    /\ procs[r].pc = "delete_highlight"
    /\ highlights' = {h \in highlights : h.id # procs[r].hid}
    /\ Step(r, "delete_sync", \E h \in highlights : h.id = procs[r].hid)
    /\ Access(r)
    /\ UNCHANGED <<auxVars, codecVars, budget, notes, syncState, clock, usedIds, resp, events, failures>>

DeleteNoteRow(r) ==
    /\ procs[r].pc = "delete_note"
    /\ IF procs[r].nid = 0
       THEN /\ Step(r, "done", FALSE)
            /\ Reply(r, ErrorResponse)
            /\ notes' = notes
       ELSE /\ Step(r, "delete_sync", \E n \in notes : n.id = procs[r].nid)
            /\ resp' = resp
            /\ notes' = {n \in notes : n.id # procs[r].nid}
    /\ Access(r)
    /\ UNCHANGED <<auxVars, codecVars, budget, highlights, syncState, clock, usedIds, events, failures>>

\* db.syncState.delete(key), after which the handler answers { success: true };
\* the side panel instead tells the active tab to drop the marker
DeleteSyncRow(r) ==
    /\ procs[r].pc = "delete_sync"
    /\ syncState' = {m \in syncState :
                       ~(m.entity_type = EntityType(r) /\ m.entity_id = EntityId(r))}
    /\ Step(r, "done", FALSE)
    /\ Reply(r, Response("success", 0, <<>>))
    /\ events' = IF procs[r].by = "panel" /\ procs[r].type = "DELETE_HIGHLIGHT"
                 THEN events \cup {[op |-> "remove", entity |-> "highlight",
                                    documentId |-> 0, to |-> {"page"}]}
                 ELSE events
    /\ Access(r)
    /\ UNCHANGED <<auxVars, codecVars, budget, highlights, notes, clock, usedIds, failures>>

StorePcs == {"add_highlight", "add_note", "markDirty_read", "markDirty_write", "query",
             "delete_notes", "delete_highlight", "delete_note", "delete_sync",
             "add_document", "get_document", "add_page_text"}

\* a Dexie call rejects (quota exceeded, corrupt database): the handler's
\* catch answers { error } and the handler ends
StoreFails(r) ==
    /\ procs[r].pc \in StorePcs
    /\ failures < MaxFailures
    /\ failures' = failures + 1
    /\ procs' = [procs EXCEPT ![r].pc = "done", ![r].failed = TRUE, ![r].ops = @ + 1]
    /\ Reply(r, ErrorResponse)
    /\ Access(r)
    /\ UNCHANGED <<auxVars, codecVars, budget, highlights, notes, syncState, clock, usedIds, events>>

(***************************************************************************)
(* The surfaces.                                                           *)
(***************************************************************************)
\* chrome.runtime.sendMessage from a content script reaches the extension's
\* own pages that listen: the side panel
RuntimeRecipients(sender) == {"panel"} \ {sender}

\* the sender's code after its awaited response: the creation notification
SurfaceContinue(r) ==
    /\ procs[r].by = "coordinator"
    /\ resp[r].kind # "none"
    /\ ~procs[r].told
    /\ procs' = [procs EXCEPT ![r].told = TRUE]
    /\ events' =
         IF procs[r].type \in {"PERSIST_HIGHLIGHT", "PERSIST_NOTE"}
         THEN events \cup {[op |-> "created", entity |-> EntityType(r),
                            documentId |-> procs[r].doc,
                            to |-> RuntimeRecipients(procs[r].sender)]}
         ELSE events
    /\ UNCHANGED <<auxVars, codecVars, budget, highlights, notes, syncState, clock, usedIds, resp,
                   accessors, overlapped, failures>>

\* HighlightsTab / NotesTab: useLiveQuery reads the tables in the panel itself
PanelLiveQuery ==
    /\ accessors' = accessors \cup {"panel"}
    /\ UNCHANGED <<auxVars, codecVars, budget, highlights, notes, syncState, clock, usedIds, procs,
                   resp, events, overlapped, failures>>

\* HighlightsTab.handleDeleteHighlight: highlightHelpers.delete in the panel
PanelDeleteHighlight ==
    \E h \in highlights :
      /\ Start(Proc("panel", "panel", "DELETE_HIGHLIGHT", 0, h.id, 0, FALSE,
                    "delete_notes", 0, 0, {}))
      /\ UNCHANGED <<auxVars, codecVars, highlights, notes, syncState, clock, usedIds, events,
                     accessors, overlapped, failures>>

\* NotesTab.handleDeleteNote: deleteNote -> noteHelpers.delete in the panel
PanelDeleteNote ==
    \E n \in notes :
      /\ Start(Proc("panel", "panel", "DELETE_NOTE", 0, 0, n.id, FALSE,
                    "delete_note", 0, 0, {}))
      /\ UNCHANGED <<auxVars, codecVars, highlights, notes, syncState, clock, usedIds, events,
                     accessors, overlapped, failures>>

NextCoord ==
    \/ OnPersistHighlight
    \/ OnGetHighlightsByDocument
    \/ OnPersistNote
    \/ OnDeleteHighlight
    \/ OnDeleteNote
    \/ OnPassThrough
    \/ \E r \in Rids : AddHighlight(r)
    \/ \E r \in Rids : AddNote(r)
    \/ \E r \in Rids : MarkDirtyRead(r)
    \/ \E r \in Rids : MarkDirtyWrite(r)
    \/ \E r \in Rids : QueryHighlights(r)
    \/ \E r \in Rids : DeleteNotesOfHighlight(r)
    \/ \E r \in Rids : DeleteHighlightRow(r)
    \/ \E r \in Rids : DeleteNoteRow(r)
    \/ \E r \in Rids : DeleteSyncRow(r)
    \/ \E r \in Rids : StoreFails(r)

SpecCoord == InitCoord /\ [][NextCoord]_vars

\* the surfaces around the coordinator: what they do with its answers, and
\* what the side panel does with the store on its own
NextSurfaces ==
    \/ OnPersistHighlight
    \/ OnGetHighlightsByDocument
    \/ OnPersistNote
    \/ OnDeleteHighlight
    \/ OnDeleteNote
    \/ OnPassThrough
    \/ \E r \in Rids : AddHighlight(r)
    \/ \E r \in Rids : AddNote(r)
    \/ \E r \in Rids : MarkDirtyRead(r)
    \/ \E r \in Rids : MarkDirtyWrite(r)
    \/ \E r \in Rids : QueryHighlights(r)
    \/ \E r \in Rids : DeleteNotesOfHighlight(r)
    \/ \E r \in Rids : DeleteHighlightRow(r)
    \/ \E r \in Rids : DeleteNoteRow(r)
    \/ \E r \in Rids : DeleteSyncRow(r)
    \/ \E r \in Rids : SurfaceContinue(r)
    \/ PanelLiveQuery
    \/ PanelDeleteHighlight
    \/ PanelDeleteNote

SpecSurfaces == InitCoord /\ [][NextSurfaces]_vars

NextOrder ==
    \/ OnPersistHighlight
    \/ OnGetHighlightsByDocument
    \/ \E r \in Rids : AddHighlight(r)
    \/ \E r \in Rids : MarkDirtyRead(r)
    \/ \E r \in Rids : MarkDirtyWrite(r)
    \/ \E r \in Rids : QueryHighlights(r)

SpecOrder == InitOrder /\ [][NextOrder]_vars

(***************************************************************************)
(* The coordinator's contract.                                             *)
(***************************************************************************)
Handled == {r \in Rids : procs[r].by = "coordinator"}

Mutations == {"PERSIST_HIGHLIGHT", "PERSIST_NOTE", "DELETE_HIGHLIGHT", "DELETE_NOTE"}

Succeeded(r) == resp[r].kind \in {"id", "success", "highlights"}

\* C3: request handling is serialized: no handler of the coordinator touches
\* the store while another handler has touched it and is not yet finished
\* with it (between its record write and its dirty-marker update, or between
\* the steps of its cascade delete).
C3_Serialized == ~overlapped

\* C4: a getHighlightsByDocument answered with a list returns every highlight
\* of its document whose persistHighlight response had been delivered before
\* the listing was requested, returns only highlights of that document, and
\* returns them in non-decreasing order of creation time.
C4_NoLostWrites ==
    \A g \in Handled :
      (procs[g].type = "GET_HIGHLIGHTS_BY_DOCUMENT" /\ resp[g].kind = "highlights") =>
        LET list == resp[g].list
        IN /\ \A h \in highlights :
                (h.id \in procs[g].seen /\ h.document_id = procs[g].doc)
                  => \E i \in 1..Len(list) : list[i] = h
           /\ \A i \in 1..Len(list) : list[i].document_id = procs[g].doc
           /\ \A i, j \in 1..Len(list) :
                i < j => list[i].created_at <= list[j].created_at

\* two acknowledged persists of one document from different surfaces, created
\* at different times, and a later listing of that document holding both
C4_Witness ==
    \E g \in Handled, a, b \in Handled :
      /\ procs[g].type = "GET_HIGHLIGHTS_BY_DOCUMENT" /\ resp[g].kind = "highlights"
      /\ procs[a].type = "PERSIST_HIGHLIGHT" /\ procs[b].type = "PERSIST_HIGHLIGHT"
      /\ procs[a].sender # procs[b].sender
      /\ procs[a].doc = procs[g].doc /\ procs[b].doc = procs[g].doc
      /\ procs[a].now < procs[b].now
      /\ {procs[a].id, procs[b].id} \subseteq procs[g].seen
      /\ Len(resp[g].list) = 2

\* C5: the step that acknowledges deleteHighlight(h) leaves a store holding
\* neither h nor a note that references h, and the step that deletes the
\* notes of h keeps every note that references another highlight or none.
C5_Cascade ==
    [][\A r \in Handled :
         /\ (procs[r].type = "DELETE_HIGHLIGHT" /\ resp[r].kind = "none"
               /\ resp'[r].kind = "success")
              => /\ \A h \in highlights' : h.id # procs[r].hid
                 /\ \A n \in notes' : n.highlight_id # procs[r].hid
         /\ (procs[r].type = "DELETE_HIGHLIGHT" /\ procs[r].pc = "delete_notes"
               /\ procs'[r].pc = "delete_highlight")
              => {n \in notes : n.highlight_id # procs[r].hid} \subseteq notes'
      ]_vars

\* C6: only the coordinator reads or writes the record store.
C6_SingleWriter == accessors \subseteq {"coordinator"}

\* C7: once a successful create or delete of a highlight or a note has been
\* answered and the requesting surface has run its code after the answer, a
\* change event of the matching operation and entity kind (and, for a create,
\* the owning document) has been sent to every other surface.
C7_ChangeEvents ==
    \A r \in Handled :
      (procs[r].type \in Mutations /\ Succeeded(r) /\ procs[r].told) =>
        \E e \in events :
          /\ e.op = (IF procs[r].type \in {"PERSIST_HIGHLIGHT", "PERSIST_NOTE"}
                     THEN "created" ELSE "deleted")
          /\ e.entity = EntityType(r)
          /\ e.op = "created" => e.documentId = procs[r].doc
          /\ Surfaces \ {procs[r].sender} \subseteq e.to

\* C8: a malformed request (unknown kind, or payload or required field
\* missing) that has been answered was answered with an error payload, and
\* its handler wrote nothing to the store.
C8_MalformedRejected ==
    \A r \in Handled :
      (procs[r].bad /\ resp[r].kind # "none") =>
        (resp[r].kind = "error" /\ ~procs[r].wrote)

\* C9: a handler whose store operation failed has answered its request with
\* an error payload and is finished; from then on it performs no further
\* store operation and its answer stays as it is.
C9_StoreFailure ==
    /\ [](\A r \in Handled :
            procs[r].failed => (resp[r].kind = "error" /\ procs[r].pc = "done"))
    /\ [][\A r \in Handled :
            procs[r].failed => (procs'[r].ops = procs[r].ops /\ resp'[r] = resp[r])
         ]_vars

\* a request that arrived after another request's store failure is answered
\* with a success
C9_Witness ==
    \E r, q \in Handled :
      /\ procs[r].failed /\ resp[r].kind = "error"
      /\ procs[q].after > 0 /\ ~procs[q].failed
      /\ Succeeded(q)

(***************************************************************************)
(* A highlight is created from the selection: createHighlightFromSelection *)
(* on a page, createPDFHighlight in the viewer.  The head of the function  *)
(* runs up to its request, the coordinator stores the row, and the rest of *)
(* the function runs when the response has come.                           *)
(***************************************************************************)
\* the anchor createPDFHighlight builds
createPDFAnchor(t, r) ==
    LET quoteText == trim(rangeToString(t, r))
        ctx == getContext(t, r)
    IN IF quoteText = <<>> THEN NoAnchor
       ELSE [isNull |-> FALSE,
             start_offset |-> 0,
             end_offset |-> Len(quoteText),
             start_context |-> ctx.prefix,
             end_context |-> ctx.suffix,
             page_number |-> 0,
             quote_text |-> quoteText]

QuoteOf(a) == IF "quoteText" \in DOMAIN a THEN a.quoteText ELSE a.quote_text

CreateTrees == UNION {TreesOfSize(n) : n \in 1..MaxCreateNodes}

InitCreate ==
    /\ dom \in CreateTrees
    /\ selection \in Ranges(dom) \cup {NoRange}
    /\ selText = IF selection.isNull THEN <<>> ELSE rangeToString(dom, selection)
    /\ anchor = NoAnchor
    /\ resolved = Resolution(NoRange, 0)
    /\ cpc = "selected"
    /\ mutations = 0
    /\ before = <<>>
    /\ painted = NoMark
    /\ highlights = {}
    /\ notes = {}
    /\ syncState = {}
    /\ usedIds = {}
    /\ clock = 0
    /\ procs = <<>>
    /\ resp = <<>>
    /\ events = {}
    /\ accessors = {}
    /\ overlapped = FALSE
    /\ failures = 0
    /\ budget = 1
    /\ AuxIdle

AnchorOfSelection(sender) ==
    IF selection.isNull THEN NoAnchor
    ELSE IF collapsed(dom, selection) THEN NoAnchor
    ELSE IF sender = "page" THEN serializeRange(dom, selection)
    ELSE createPDFAnchor(dom, selection)

CreateHighlight ==
    /\ cpc = "selected"
    /\ \E sender \in Senders, doc \in Docs, id \in FreshIds, now \in Nows :
         LET a == AnchorOfSelection(sender)
         IN /\ anchor' = a
            /\ IF a.isNull
               THEN /\ cpc' = "rejected"
                    /\ UNCHANGED coordVars
               ELSE /\ cpc' = "requested"
                    /\ Start([Proc("coordinator", sender, "PERSIST_HIGHLIGHT", doc, 0, 0,
                                   FALSE, "add_highlight", id, now, {})
                                EXCEPT !.payload = Payload(a, QuoteOf(a))])
                    /\ usedIds' = usedIds \cup {id}
                    /\ clock' = now
                    /\ UNCHANGED <<highlights, notes, syncState, events, accessors,
                                   overlapped, failures>>
    /\ UNCHANGED <<dom, selection, selText, resolved, mutations, before, painted,
                   auxVars>>

\* the function after its awaited response: paint, clear the selection, notify
CreateFinish(r) ==
    /\ cpc = "requested"
    /\ resp[r].kind # "none"
    /\ dom' = renderHighlight(dom, selection, resp[r].id)
    /\ before' = dom
    /\ painted' = resp[r].id
    /\ selection' = NoRange
    /\ cpc' = "created"
    /\ procs' = [procs EXCEPT ![r].told = TRUE]
    /\ events' = events \cup {[op |-> "created", entity |-> "highlight",
                               documentId |-> procs[r].doc,
                               to |-> RuntimeRecipients(procs[r].sender)]}
    /\ UNCHANGED <<selText, anchor, resolved, mutations, highlights, notes, syncState,
                   clock, usedIds, resp, accessors, overlapped, failures, budget,
                   auxVars>>

NextCreate ==
    \/ CreateHighlight
    \/ \E r \in Rids : AddHighlight(r)
    \/ \E r \in Rids : MarkDirtyRead(r)
    \/ \E r \in Rids : MarkDirtyWrite(r)
    \/ \E r \in Rids : CreateFinish(r)

SpecCreate == InitCreate /\ [][NextCreate]_vars

\* C12: a creation from a missing, collapsed or all-whitespace selection has
\* returned failure and has had no effect: no request was sent, the store is
\* empty as before, no marker was painted and no event was sent.
C12_EmptySelectionNoOp ==
    (cpc # "selected" /\ \A i \in 1..Len(selText) : selText[i] = " ") =>
      /\ cpc = "rejected"
      /\ procs = <<>>
      /\ highlights = {} /\ notes = {} /\ syncState = {}
      /\ events = {}
      /\ Markers(dom) = {} /\ before = <<>>

\* a creation from a selection of white space only was rejected
C12_Witness ==
    /\ cpc = "rejected"
    /\ selText # <<>>
    /\ ~collapsed(dom, selection)

(***************************************************************************)
(* The markers of a page: one range is painted, then markers are removed   *)
(* by identifier or all at once.                                           *)
(***************************************************************************)
MarkIds == 1..MaxMarks

InitPaint ==
    /\ dom \in Trees
    /\ selection = MkRange(0, 0, 0, 0)
    /\ selText = <<>>
    /\ anchor = NoAnchor
    /\ resolved = Resolution(NoRange, 0)
    /\ cpc = "clean"
    /\ mutations = 0
    /\ before = <<>>
    /\ painted = NoMark
    /\ CoordIdle
    /\ AuxIdle

Paint ==
    /\ cpc = "clean"
    /\ \E r \in Ranges(dom), id \in MarkIds :
         /\ ~collapsed(dom, r)
         /\ selection' = r
         /\ selText' = rangeToString(dom, r)
         /\ dom' = renderHighlight(dom, r, id)
         /\ painted' = id
    /\ before' = dom
    /\ cpc' = "painted"
    /\ UNCHANGED <<anchor, resolved, mutations, coordVars, auxVars>>

Unpaint ==
    /\ cpc = "painted"
    /\ \E id \in MarkIds :
         /\ dom' = removeHighlight(dom, id)
         /\ cpc' = IF id = painted THEN "unpainted" ELSE "painted"
    /\ UNCHANGED <<selection, selText, anchor, resolved, mutations, before, painted,
                   coordVars, auxVars>>

UnpaintAll ==
    /\ cpc = "painted"
    /\ dom' = removeAllHighlightElements(dom)
    /\ cpc' = "cleared"
    /\ UNCHANGED <<selection, selText, anchor, resolved, mutations, before, painted,
                   coordVars, auxVars>>

NextPaint == Paint \/ Unpaint \/ UnpaintAll

SpecPaint == InitPaint /\ [][NextPaint]_vars

\* the text below node n
RECURSIVE subtreeText(_, _, _)
subtreeText(t, n, j) ==
    IF j > Len(t) THEN <<>>
    ELSE (IF IsText(t, j) /\ IsAncestorOrSelf(t, n, j) THEN t[j].data ELSE <<>>)
           \o subtreeText(t, n, j + 1)

\* parents are earlier nodes and every subtree is one run of the preorder
WellFormed(t) ==
    \A n \in Idx(t) :
      /\ t[n].parent \in 0..(n - 1)
      /\ IsElem(t, t[n].parent)
      /\ \A j \in Idx(t) : (t[n].parent < j /\ j < n) => IsAncestorOrSelf(t, t[n].parent, j)

\* C13: a marker painted on a range and removed again by its identifier
\* leaves the text of the tree, read in document order, as it was before
\* the paint, and leaves no marker.
C13_PaintUnpaint ==
    cpc = "unpainted" =>
      /\ textContent(dom, 1) = textContent(before, 1)
      /\ Markers(dom) = {}
      /\ WellFormed(dom)

\* painted across an element boundary, then removed
C13_Witness ==
    /\ cpc = "unpainted"
    /\ surroundContentsThrows(before, selection)
    /\ selText # <<>>

\* C14: painting a non-collapsed range, one that partially contains an
\* element included, ends with exactly one marker that carries the identifier
\* and whose text is the text of the range; the text of the tree is unchanged.
C14_PaintNeverFails ==
    cpc = "painted" =>
      /\ Cardinality(Marked(dom, painted)) = 1
      /\ \A n \in Marked(dom, painted) :
           IsElem(dom, n) /\ subtreeText(dom, n, 1) = selText
      /\ textContent(dom, 1) = textContent(before, 1)
      /\ WellFormed(dom)

\* painted by the extract-and-reinsert fallback
C14_Witness ==
    /\ cpc = "painted"
    /\ surroundContentsThrows(before, selection)
    /\ Cardinality(Marked(dom, painted)) = 1

\* removing markers left no empty text node and no adjacent text nodes that
\* were not there before the paint
Tidy(t) ==
    /\ EmptyTexts(t, 0) = {}
    /\ Cardinality(AdjacentTexts(t, 0)) <= Cardinality(AdjacentTexts(before, 0))

\* C15: after Unpaint(id) no marker carries the identifier, after UnpaintAll
\* there is no marker; in both cases the children of the markers are still in
\* the tree, no text node is empty and no two text nodes are adjacent where
\* the marker was.
C15_UnpaintTidy ==
    /\ cpc = "unpainted" => (Marked(dom, painted) = {} /\ Tidy(dom))
    /\ cpc = "cleared" => (Markers(dom) = {} /\ Tidy(dom))
    /\ cpc \in {"unpainted", "cleared"} => textContent(dom, 1) = textContent(before, 1)

(***************************************************************************)
(* Invariants of the stored records.                                       *)
(***************************************************************************)
\* C16: every highlight in the store has a non-empty quote text.
C16_QuoteNonEmpty == \A h \in highlights : h.quote_text # <<>>

\* C17: the anchor a creation has built and the anchor of every stored
\* highlight have an end offset strictly greater than the start offset.
C17_OffsetsOrdered ==
    /\ ~anchor.isNull => anchor.end_offset > anchor.start_offset
    /\ \A h \in highlights :
         ~h.anchor.isNull => h.anchor.end_offset > h.anchor.start_offset

\* C18: every note that references a highlight references one that is in
\* the store and belongs to the note's document.
C18_NoteReferences ==
    \A n \in notes :
      n.highlight_id # 0 =>
        \E h \in highlights : h.id = n.highlight_id /\ h.document_id = n.document_id

AnchorFields ==
    {"start_offset", "end_offset", "start_context", "end_context", "range", "quoteText"}

RangeFields == {"startContainer", "startOffset", "endContainer", "endOffset"}

FullyPopulated(a) ==
    /\ AnchorFields \subseteq DOMAIN a
    /\ IF "range" \in DOMAIN a THEN RangeFields \subseteq DOMAIN a.range ELSE FALSE

\* C19: the anchor of every highlight persisted by a surface carries every
\* field of the persisted shape: both position paths with their offsets, the
\* document offsets, both contexts and the quote text.
C19_FullyPopulated == \A h \in highlights : FullyPopulated(h.anchor)

DirtyKey(m) == <<m.entity_type, m.entity_id>>

MaxStored == 2

MaxRestores == 2

\* an open view: the surface it runs, the document it shows (0 if none yet),
\* the identifiers its markers carry, the request whose response it awaits
\* (0 if none), whether its tab is the active one, the locator of its page
\* and how far its initialization has come
View(surface, doc, marks) ==
    [surface |-> surface, doc |-> doc, marks |-> marks, pending |-> 0, active |-> FALSE,
     source |-> 0, stage |-> "idle"]

\* the anchors the surface has stored for ranges of the tree
AnchorsOf(t, surface) ==
    {a \in {IF surface = "page" THEN serializeRange(t, r) ELSE createPDFAnchor(t, r) :
              r \in {x \in Ranges(t) : ~collapsed(t, x)}} : ~a.isNull}

\* the highlights of document 1 that earlier sessions persisted, oldest first
StoredHighlights(t, surface) ==
    {{}} \cup {{Highlight(1, 1, 0, Payload(a, QuoteOf(a)))} : a \in AnchorsOf(t, surface)}
         \cup {{Highlight(1, 1, 0, Payload(a, QuoteOf(a))),
                Highlight(2, 1, 1, Payload(b, QuoteOf(b)))} :
                 a \in AnchorsOf(t, surface), b \in AnchorsOf(t, surface)}

\* a view has loaded its document: at most stored highlights are in the
\* store, and the view will call restoreHighlights at most restores times
Reloaded(stored, restores) ==
    /\ dom \in CreateTrees
    /\ \E surface \in Senders :
         /\ views = <<View(surface, 1, {})>>
         /\ highlights \in StoredHighlights(dom, surface)
    /\ Cardinality(highlights) <= stored
    /\ budget = restores
    /\ usedIds = {h.id : h \in highlights}
    /\ syncState = {SyncRow("highlight", h.id) : h \in highlights}
    /\ before = dom
    /\ selection = MkRange(0, 0, 0, 0)
    /\ selText = <<>>
    /\ anchor = NoAnchor
    /\ resolved = Resolution(NoRange, 0)
    /\ cpc = "loaded"
    /\ mutations = 0
    /\ painted = NoMark
    /\ notes = {}
    /\ clock = 1
    /\ procs = <<>>
    /\ resp = <<>>
    /\ events = {}
    /\ accessors = {}
    /\ overlapped = FALSE
    /\ failures = 0
    /\ documents = {}
    /\ banner = NoBanner
    /\ sidePanelState = {}

\* one reload, one restore
InitRestore == Reloaded(MaxStored, 1)

\* a reload whose restores overlap
InitOverlap == Reloaded(1, MaxRestores)

\* restoreHighlights up to its await: the page drops its markers and asks for
\* the highlights of its document; the PDF viewers only ask
RestoreStart ==
    /\ dom' = IF views[1].surface = "page" THEN removeAllHighlightElements(dom) ELSE dom
    /\ Start(Proc("coordinator", views[1].surface, "GET_HIGHLIGHTS_BY_DOCUMENT",
                  views[1].doc, 0, 0, FALSE, "query", 0, 0, {}))
    /\ cpc' = "restoring"
    /\ UNCHANGED <<selection, selText, anchor, resolved, mutations, before, painted,
                   highlights, notes, syncState, clock, usedIds, events, accessors,
                   overlapped, failures, auxVars>>

\* a loop that paints an empty marker for every highlight, resolved or not
RestoreLoop_M(t, list, i) ==
    t \o [j \in 1..Len(list) |-> [ElemNode("span", "", 0) EXCEPT !.mark = list[j].id]]

\* the loop of restoreHighlights: each highlight is resolved on the tree as
\* the paints before it have left it, and painted if a range came back; a
\* throw out of deserializeRange ends the loop
RECURSIVE RestoreLoop(_, _, _)
RestoreLoop(t, list, i) ==
    IF i > Len(list) THEN t
    ELSE LET range == deserializeRange(t, list[i].anchor).range
         IN IF range = RaisedRange THEN t
            ELSE IF range.isNull THEN RestoreLoop(t, list, i + 1)
            ELSE RestoreLoop(renderHighlight(t, range, list[i].id), list, i + 1)

\* response.highlights || []
ListOf(response) == IF response.kind = "highlights" THEN response.list ELSE <<>>

\* the call after its awaited response: the page paints the list; the PDF
\* viewers keep it in window.__pendingHighlights, which nothing reads
RestoreFinish(r) ==
    /\ procs[r].type = "GET_HIGHLIGHTS_BY_DOCUMENT"
    /\ resp[r].kind # "none"
    /\ ~procs[r].told
    /\ procs' = [procs EXCEPT ![r].told = TRUE]
    /\ dom' = IF views[1].surface = "page" THEN RestoreLoop(dom, ListOf(resp[r]), 1)
              ELSE dom
    /\ cpc' = IF \A q \in Rids \ {r} : procs[q].told THEN "restored" ELSE "restoring"
    /\ UNCHANGED <<selection, selText, anchor, resolved, mutations, before, painted,
                   highlights, notes, syncState, clock, usedIds, resp, events,
                   accessors, overlapped, failures, budget, auxVars>>

NextRestore ==
    \/ RestoreStart
    \/ \E r \in Rids : QueryHighlights(r)
    \/ \E r \in Rids : StoreFails(r)
    \/ \E r \in Rids : RestoreFinish(r)

SpecRestore == InitRestore /\ [][NextRestore]_vars

SpecOverlap == InitOverlap /\ [][NextRestore]_vars

\* the stored anchor can be resolved on tree t: by deserializeRange on a page;
\* a PDF anchor carries no range, only its quote, which must occur in the text
Resolvable(t, a) ==
    IF "range" \in DOMAIN a THEN ~deserializeRange(t, a).range.isNull
    ELSE Contains(textContent(t, 1), a.quote_text)

\* some marker of the view carries the identifier of h around h's quote
PaintedAs(h) ==
    \E n \in Marked(dom, h.id) : IsElem(dom, n) /\ subtreeText(dom, n, 1) = h.quote_text

\* the lists delivered to the restore calls of this run
Returned == UNION {{ListOf(resp[r])[i] : i \in 1..Len(ListOf(resp[r]))} : r \in Rids}

\* C21: on reload of a document on either surface, once the restores of the
\* view have ended for good (no store operation having failed), every
\* highlight the coordinator returned whose anchor resolves on the tree as it
\* was loaded has a marker with its identifier around its quote text.
C21_RestorePaints ==
    (cpc = "restored" /\ budget = 0 /\ failures = 0) =>
        \A h \in Returned : Resolvable(before, h.anchor) => PaintedAs(h)

\* the identifiers of the highlights of the list, from the i-th on, for
\* which Resolve returns null when the list is restored on tree t
RECURSIVE OrphansOf(_, _, _)
OrphansOf(t, list, i) ==
    IF i > Len(list) THEN {}
    ELSE LET range == deserializeRange(t, list[i].anchor).range
         IN IF range = RaisedRange THEN {}
            ELSE IF range.isNull THEN {list[i].id} \cup OrphansOf(t, list, i + 1)
            ELSE OrphansOf(renderHighlight(t, range, list[i].id), list, i + 1)

\* C22: when Resolve returns null for a stored highlight during a restore,
\* the view holds no marker for it afterwards, and no step of a restore
\* changes the store or sends anything but the request for the list.
C22_OrphansKept ==
    /\ []((cpc = "restored" /\ views[1].surface = "page") =>
            \A r \in Rids : \A id \in OrphansOf(before, ListOf(resp[r]), 1) :
                Marked(dom, id) = {})
    /\ [][/\ highlights' = highlights
          /\ notes' = notes
          /\ syncState' = syncState
          /\ \A r \in 1..Len(procs') : procs'[r].type = "GET_HIGHLIGHTS_BY_DOCUMENT"]_vars

\* a restore has ended on a page whose store holds a highlight that does not
\* resolve: it is still stored and the page shows no marker for it
C22_Witness ==
    /\ cpc = "restored"
    /\ views[1].surface = "page"
    /\ \E r \in Rids : \E id \in OrphansOf(before, ListOf(resp[r]), 1) :
         /\ Marked(dom, id) = {}
         /\ \E h \in highlights : h.id = id

(***************************************************************************)
(* Resilience of structural replay to nodes inserted by the page.          *)
(***************************************************************************)
\* the nodes the XPaths of the selection's containers step through
PathNodes(t, r) ==
    {m \in Idx(t) : \/ IsAncestorOrSelf(t, m, r.startContainer)
                    \/ IsAncestorOrSelf(t, m, r.endContainer)}

\* text against element, or elements of different tags
DifferentKind(a, b) == a.kind # b.kind \/ a.tag # b.tag

\* leaf nd, inserted below p, becomes a sibling of a node of the paths and is
\* of another kind than every such sibling
UnrelatedSibling(t, r, p, nd) ==
    /\ \E m \in PathNodes(t, r) : t[m].parent = p
    /\ \A m \in PathNodes(t, r) : t[m].parent = p => DifferentKind(nd, t[m])

\* what tier 1 gives: whether a range comes back, and its text
ReplayOutcome(t, a) ==
    LET r == StructuralReplay(t, a)
    IN [isNull |-> r.isNull, text |-> IF r.isNull THEN <<>> ELSE rangeToString(t, r)]

\* C23: a page mutation that inserts an unrelated sibling of a different kind
\* (another tag, or an element next to text nodes) between Serialize and
\* Resolve leaves the outcome of tier-1 structural replay as it was.
C23_Resilience ==
    [][\A p \in 0..Len(dom), nd \in Leaves, k \in 0..Len(dom) :
         (/\ cpc = "serialized"
          /\ IsElem(dom, p)
          /\ k <= nodeLength(dom, p)
          /\ dom' = InsertLeaf(dom, p, k, nd)
          /\ UnrelatedSibling(dom, selection, p, nd))
           => ReplayOutcome(dom', anchor) = ReplayOutcome(dom, anchor)]_vars

(***************************************************************************)
(* content/opt-in-banner.ts: showOptInBanner.  Every call has its promise, *)
(* its resolved flag and, unless a banner was already in the page, its     *)
(* banner element with three buttons and its auto-dismiss timer.           *)
(***************************************************************************)
MaxBanners == 2

MaxClicks == 3

Buttons == {"accept", "dismiss", "close"}

\* the state of one call: inDom - its banner element is in the document,
\* removal - the 200 ms timer of banner.remove() is pending, timer - the
\* auto-dismiss timer is pending, resolutions - the calls of resolve so far,
\* value - what the promise resolved to, happened - the events so far
BannerCall(shown) ==
    [inDom |-> shown, removal |-> FALSE, timer |-> shown, resolved |-> FALSE,
     resolutions |-> IF shown THEN 0 ELSE 1, value |-> FALSE, happened |-> <<>>]

\* finish without its resolved flag
finish_M(call, accepted) ==
    [call EXCEPT !.resolved = TRUE, !.timer = FALSE,
                 !.removal = @ \/ call.inDom,
                 !.resolutions = @ + 1,
                 !.value = IF call.resolutions = 0 THEN accepted ELSE @]

\* finish(accepted): only the first call clears the timer, starts the removal
\* of the banner and resolves the promise
finish(call, accepted) ==
    IF call.resolved THEN call
    ELSE [call EXCEPT !.resolved = TRUE, !.timer = FALSE,
                      !.removal = @ \/ call.inDom,
                      !.resolutions = @ + 1,
                      !.value = IF call.resolutions = 0 THEN accepted ELSE @]

Calls == 1..Len(banner)

\* document.getElementById(BANNER_ID)
BannerPresent == \E c \in Calls : banner[c].inDom

Clicks == SumTo([c \in Calls |-> Len(banner[c].happened)], Len(banner))

InitBanner ==
    /\ CodecIdle
    /\ CoordIdle
    /\ views = <<>>
    /\ documents = {}
    /\ sidePanelState = {}
    /\ banner = NoBanner

\* a call of showOptInBanner: false at once if a banner is in the page, else
\* the banner is appended to the body and the timer is started
ShowOptInBanner ==
    /\ Len(banner) < MaxBanners
    /\ banner' = Append(banner, BannerCall(~BannerPresent))
    /\ UNCHANGED <<codecVars, coordVars, views, documents, sidePanelState>>

\* the user clicks a button of a banner that is in the page
Click(c, button) ==
    /\ banner[c].inDom
    /\ Clicks < MaxClicks
    /\ banner' = [banner EXCEPT
                    ![c] = [finish(banner[c], button = "accept")
                              EXCEPT !.happened = Append(@, button)]]
    /\ UNCHANGED <<codecVars, coordVars, views, documents, sidePanelState>>

\* the 15 s auto-dismiss timer fires
AutoDismiss(c) ==
    /\ banner[c].timer
    /\ banner' = [banner EXCEPT
                    ![c] = [finish([banner[c] EXCEPT !.timer = FALSE], FALSE)
                              EXCEPT !.happened = Append(@, "timer")]]
    /\ UNCHANGED <<codecVars, coordVars, views, documents, sidePanelState>>

\* setTimeout(() => banner.remove(), 200)
BannerRemove(c) ==
    /\ banner[c].removal
    /\ banner' = [banner EXCEPT ![c].removal = FALSE, ![c].inDom = FALSE]
    /\ UNCHANGED <<codecVars, coordVars, views, documents, sidePanelState>>

NextBanner ==
    \/ ShowOptInBanner
    \/ \E c \in Calls, button \in Buttons : Click(c, button)
    \/ \E c \in Calls : AutoDismiss(c)
    \/ \E c \in Calls : BannerRemove(c)

\* a timer that was set and not cleared fires
SpecBanner ==
    /\ InitBanner
    /\ [][NextBanner]_vars
    /\ WF_vars(\E c \in Calls : AutoDismiss(c))
    /\ WF_vars(\E c \in Calls : BannerRemove(c))

\* C24: every call of showOptInBanner resolves its promise, and only once:
\* with false at once when a banner was in the page, else with true if the
\* first of accept, dismiss, close and the timer was accept and with false
\* if it was another; what happens after the resolution changes nothing.
C24_BannerResolvesOnce ==
    /\ [](\A c \in Calls :
            /\ banner[c].resolutions <= 1
            /\ banner[c].happened = <<>> =>
                 /\ banner[c].resolutions = (IF banner[c].timer THEN 0 ELSE 1)
                 /\ ~banner[c].value
            /\ banner[c].happened # <<>> =>
                 /\ banner[c].resolutions = 1
                 /\ banner[c].value = (banner[c].happened[1] = "accept"))
    /\ [][\A c \in Calls : banner[c].resolutions = 1 =>
            (banner'[c].resolutions = 1 /\ banner'[c].value = banner[c].value)]_vars
    /\ \A c \in 1..MaxBanners :
         (Len(banner) >= c) ~> (IF Len(banner) >= c THEN banner[c].resolutions = 1
                                ELSE FALSE)

\* accept came first, a dismiss and the timer's moment came after it
C24_Witness ==
    \E c \in Calls :
      /\ Len(banner[c].happened) >= 2
      /\ banner[c].happened[1] = "accept"
      /\ banner[c].value
      /\ banner[c].resolutions = 1

(***************************************************************************)
(* A highlight is created while the store may fail.                        *)
(***************************************************************************)
NextCreateFail ==
    \/ CreateHighlight
    \/ \E r \in Rids : AddHighlight(r)
    \/ \E r \in Rids : MarkDirtyRead(r)
    \/ \E r \in Rids : MarkDirtyWrite(r)
    \/ \E r \in Rids : StoreFails(r)
    \/ \E r \in Rids : CreateFinish(r)

SpecCreateFail == InitCreate /\ [][NextCreateFail]_vars

\* C25: when the coordinator has answered persistHighlight with an error
\* payload and the surface has run the rest of its creation, the surface has
\* painted no marker, has sent no creation notification and has no
\* highlight identifier to return.
C25_FailedPersist ==
    \A r \in Rids :
      (procs[r].type = "PERSIST_HIGHLIGHT" /\ resp[r].kind = "error" /\ procs[r].told) =>
         /\ Markers(dom) = {}
         /\ events = {}
         /\ painted = NoMark

\* C26: a marker is in the page only when the persistHighlight response that
\* carries its identifier has arrived; a creation notification has been sent
\* only when the marker is painted; and the highlights listed for the
\* document of a creation notification include the highlight of the marker.
C26_CreationOrdering ==
    /\ Markers(dom) # {} =>
         \E r \in Rids : resp[r].kind = "id" /\ Marked(dom, resp[r].id) # {}
    /\ events # {} => Markers(dom) # {}
    /\ \A e \in events :
         (e.op = "created" /\ e.entity = "highlight") =>
            \E i \in 1..Len(getHighlightsByDocument(e.documentId)) :
               Marked(dom, getHighlightsByDocument(e.documentId)[i].id) # {}

(***************************************************************************)
(* Several views show one document, each with its markers; a highlight is  *)
(* deleted from the menu of a marker or from the side panel.               *)
(***************************************************************************)
MaxViews == 2

ViewIds == 1..Len(views)

InitViews ==
    /\ CodecIdle
    /\ highlights = {Highlight(1, 1, 0, SomePayload), Highlight(2, 1, 1, SomePayload)}
    /\ notes = {}
    /\ syncState = {SyncRow("highlight", 1), SyncRow("highlight", 2)}
    /\ usedIds = {1, 2}
    /\ clock = 1
    /\ procs = <<>>
    /\ resp = <<>>
    /\ events = {}
    /\ accessors = {}
    /\ overlapped = FALSE
    /\ failures = 0
    /\ budget = MaxReq
    /\ \E surfaces \in [1..MaxViews -> Senders], tab \in 1..MaxViews :
         views = [v \in 1..MaxViews |->
                    [View(surfaces[v], 1, {1, 2}) EXCEPT !.active = (v = tab)]]
    /\ documents = {}
    /\ banner = NoBanner
    /\ sidePanelState = {}

\* the remove button of a marker's menu up to its await: DELETE_HIGHLIGHT
ViewDeleteStart(v) ==
    /\ views[v].pending = 0
    /\ \E id \in views[v].marks :
         Start(Proc("coordinator", views[v].surface, "DELETE_HIGHLIGHT", 0, id, 0,
                    FALSE, "delete_notes", 0, 0, {}))
    /\ views' = [views EXCEPT ![v].pending = Len(procs) + 1]
    /\ UNCHANGED <<codecVars, highlights, notes, syncState, clock, usedIds, events,
                   accessors, overlapped, failures, documents, banner, sidePanelState>>

\* the handler after the response: the markers of this view are unwrapped
ViewDeleteFinish(v) ==
    /\ views[v].pending # 0
    /\ resp[views[v].pending].kind # "none"
    /\ views' = [views EXCEPT ![v].pending = 0,
                              ![v].marks = @ \ {procs[views[v].pending].hid}]
    /\ UNCHANGED <<codecVars, coordVars, documents, banner, sidePanelState>>

\* REMOVE_HIGHLIGHT, sent by the side panel to the active tab after its
\* delete: the content script of a page handles it, the PDF viewer has no
\* handler for it
ActiveTabRemove(r) ==
    /\ procs[r].by = "panel"
    /\ procs[r].type = "DELETE_HIGHLIGHT"
    /\ procs[r].pc = "done"
    /\ ~procs[r].told
    /\ procs' = [procs EXCEPT ![r].told = TRUE]
    /\ views' = [v \in ViewIds |->
                   IF views[v].active /\ views[v].surface = "page"
                   THEN [views[v] EXCEPT !.marks = @ \ {procs[r].hid}]
                   ELSE views[v]]
    /\ UNCHANGED <<codecVars, highlights, notes, syncState, clock, usedIds, resp,
                   events, accessors, overlapped, failures, budget, documents, banner,
                   sidePanelState>>

NextViews ==
    \/ \E v \in ViewIds : ViewDeleteStart(v)
    \/ \E v \in ViewIds : ViewDeleteFinish(v)
    \/ PanelDeleteHighlight
    \/ \E r \in Rids : DeleteNotesOfHighlight(r)
    \/ \E r \in Rids : DeleteHighlightRow(r)
    \/ \E r \in Rids : DeleteSyncRow(r)
    \/ \E r \in Rids : ActiveTabRemove(r)

\* every handler that was started runs to its end and every message that was
\* sent is delivered
SpecViews ==
    /\ InitViews
    /\ [][NextViews]_vars
    /\ WF_vars(\E r \in Rids : DeleteNotesOfHighlight(r))
    /\ WF_vars(\E r \in Rids : DeleteHighlightRow(r))
    /\ WF_vars(\E r \in Rids : DeleteSyncRow(r))
    /\ WF_vars(\E v \in ViewIds : ViewDeleteFinish(v))
    /\ WF_vars(\E r \in Rids : ActiveTabRemove(r))

\* the highlight has been deleted from the store
Deleted(id) == id \in usedIds /\ \A h \in highlights : h.id # id

\* C27: once a highlight has been deleted, from a view or from the side
\* panel, every open view of its document eventually holds no marker that
\* carries its identifier.
C27_ViewsConsistent ==
    \A id \in 1..MaxStored :
      Deleted(id) ~> (\A v \in ViewIds : id \notin views[v].marks)

(***************************************************************************)
(* The other requests of the service worker's listener: the Document rows  *)
(* (CREATE_DOCUMENT, GET_DOCUMENT_BY_SOURCE), CREATE_PAGE_TEXT and the     *)
(* side panel (OPEN_SIDE_PANEL, TOGGLE_SIDE_PANEL).                        *)
(***************************************************************************)
MaxSources == 2

MaxTabs == 1

\* window.location.href of the pages; 0 stands for a message without source
Sources == 1..MaxSources

\* sender.tab.id; 0 stands for a sender that is no tab
Tabs == 1..MaxTabs

Document(id, source, now) == [id |-> id, source |-> source, created_at |-> now]

OnCreateDocument ==
    \E sender \in Senders, source \in Sources, id \in FreshIds, now \in Nows :
      /\ Start([Proc("coordinator", sender, "CREATE_DOCUMENT", 0, 0, 0, FALSE,
                     "add_document", id, now, {}) EXCEPT !.source = source])
      /\ usedIds' = usedIds \cup {id}
      /\ clock' = now
      /\ UNCHANGED <<auxVars, codecVars, highlights, notes, syncState, events,
                     accessors, overlapped, failures>>

OnGetDocumentBySource ==
    \E sender \in Senders, source \in Sources \cup {0} :
      /\ Start([Proc("coordinator", sender, "GET_DOCUMENT_BY_SOURCE", 0, 0, 0,
                     source = 0, "get_document", 0, 0, {}) EXCEPT !.source = source])
      /\ UNCHANGED <<auxVars, codecVars, highlights, notes, syncState, clock, usedIds,
                     events, accessors, overlapped, failures>>

\* the pageText table is read by no handler of the listener: the request
\* shows in its response only
OnCreatePageText ==
    \E sender \in Senders, id \in FreshIds :
      /\ Start(Proc("coordinator", sender, "CREATE_PAGE_TEXT", 0, 0, 0, FALSE,
                    "add_page_text", id, 0, {}))
      /\ usedIds' = usedIds \cup {id}
      /\ UNCHANGED <<auxVars, codecVars, highlights, notes, syncState, clock, events,
                     accessors, overlapped, failures>>

\* db.documents.add(document) of documentHelpers.create; markDirty follows
AddDocument(r) ==
    /\ procs[r].pc = "add_document"
    /\ documents' = documents \cup {Document(procs[r].id, procs[r].source, procs[r].now)}
    /\ Step(r, "markDirty_read", TRUE)
    /\ Access(r)
    /\ UNCHANGED <<codecVars, budget, highlights, notes, syncState, clock, usedIds, resp,
                   events, failures, views, banner, sidePanelState>>

\* db.documents.where('source').equals(source).first(): the match that comes
\* first in the index, undefined (0) if none; an undefined key rejects
GetDocumentBySource(r) ==
    /\ procs[r].pc = "get_document"
    /\ Step(r, "done", FALSE)
    /\ LET hits == {d.id : d \in {x \in documents : x.source = procs[r].source}}
       IN Reply(r, IF procs[r].source = 0 THEN ErrorResponse
                   ELSE Response("document", IF hits = {} THEN 0 ELSE Min(hits), <<>>))
    /\ Access(r)
    /\ UNCHANGED <<auxVars, codecVars, budget, highlights, notes, syncState, clock,
                   usedIds, events, failures>>

\* db.pageText.add(page) of pageTextHelpers.create, answered with { id }
AddPageText(r) ==
    /\ procs[r].pc = "add_page_text"
    /\ Step(r, "done", TRUE)
    /\ Reply(r, Response("id", procs[r].id, <<>>))
    /\ Access(r)
    /\ UNCHANGED <<auxVars, codecVars, budget, highlights, notes, syncState, clock,
                   usedIds, events, failures>>

\* a request the listener handles without an await
Handle(sender, type, answer) ==
    /\ budget > 0
    /\ budget' = budget - 1
    /\ procs' = Append(procs, Proc("coordinator", sender, type, 0, 0, 0, FALSE, "done",
                                   0, 0, {}))
    /\ resp' = Append(resp, answer)

\* OPEN_SIDE_PANEL: the panel of the sender's tab is opened, if there is a
\* tab, and the request is answered { received: true }
OnOpenSidePanel ==
    \E sender \in Surfaces, tab \in Tabs \cup {0} :
      /\ sender = "panel" <=> tab = 0
      /\ Handle(sender, "OPEN_SIDE_PANEL", PassThroughResponse)
      /\ sidePanelState' = IF tab # 0 THEN sidePanelState \cup {tab} ELSE sidePanelState
      /\ UNCHANGED <<codecVars, highlights, notes, syncState, clock, usedIds, events,
                     accessors, overlapped, failures, views, documents, banner>>

\* TOGGLE_SIDE_PANEL: both calls of sendResponse are inside if (sender.tab?.id)
OnToggleSidePanel ==
    \E sender \in Surfaces, tab \in Tabs \cup {0} :
      /\ sender = "panel" <=> tab = 0
      /\ Handle(sender, "TOGGLE_SIDE_PANEL",
                IF tab = 0 THEN NoResponse
                ELSE IF tab \in sidePanelState THEN Response("close", 0, <<>>)
                ELSE Response("open", 0, <<>>))
      /\ sidePanelState' = IF tab = 0 THEN sidePanelState
                           ELSE IF tab \in sidePanelState THEN sidePanelState \ {tab}
                           ELSE sidePanelState \cup {tab}
      /\ UNCHANGED <<codecVars, highlights, notes, syncState, clock, usedIds, events,
                     accessors, overlapped, failures, views, documents, banner>>

\* every request type of the listener, the store empty at the start
InitListener ==
    /\ CodecIdle
    /\ AuxIdle
    /\ highlights = {}
    /\ notes = {}
    /\ syncState = {}
    /\ usedIds = {}
    /\ clock = 0
    /\ procs = <<>>
    /\ resp = <<>>
    /\ events = {}
    /\ accessors = {}
    /\ overlapped = FALSE
    /\ failures = 0
    /\ budget = MaxReq

NextListener ==
    \/ OnCreateDocument
    \/ OnGetDocumentBySource
    \/ OnCreatePageText
    \/ OnPersistHighlight
    \/ OnGetHighlightsByDocument
    \/ OnPersistNote
    \/ OnDeleteHighlight
    \/ OnDeleteNote
    \/ OnOpenSidePanel
    \/ OnToggleSidePanel
    \/ OnPassThrough
    \/ \E r \in Rids : AddDocument(r)
    \/ \E r \in Rids : GetDocumentBySource(r)
    \/ \E r \in Rids : AddPageText(r)
    \/ \E r \in Rids : AddHighlight(r)
    \/ \E r \in Rids : AddNote(r)
    \/ \E r \in Rids : MarkDirtyRead(r)
    \/ \E r \in Rids : MarkDirtyWrite(r)
    \/ \E r \in Rids : QueryHighlights(r)
    \/ \E r \in Rids : DeleteNotesOfHighlight(r)
    \/ \E r \in Rids : DeleteHighlightRow(r)
    \/ \E r \in Rids : DeleteNoteRow(r)
    \/ \E r \in Rids : DeleteSyncRow(r)
    \/ \E r \in Rids : StoreFails(r)

SpecListener == InitListener /\ [][NextListener]_vars

\* C28: a request whose handler has run to its end has been answered, and no
\* request is ever answered twice: sendResponse was called exactly once for
\* it, whatever its type and whether or not its sender is a tab.
C28_ExactlyOneResponse ==
    \A r \in Rids :
      /\ resp[r].count <= 1
      /\ (procs[r].by = "coordinator" /\ procs[r].pc = "done") => resp[r].count = 1

(***************************************************************************)
(* getOrCreateDocument of the content script and the same sequence in      *)
(* activateInlinePDFViewer: GET_DOCUMENT_BY_SOURCE, then, when no document *)
(* came back, CREATE_DOCUMENT and CREATE_PAGE_TEXT.  Each view runs the    *)
(* sequence once; the views run side by side.                              *)
(***************************************************************************)
InitDocuments ==
    /\ CodecIdle
    /\ highlights = {}
    /\ notes = {}
    /\ syncState = {}
    /\ usedIds = {}
    /\ clock = 0
    /\ procs = <<>>
    /\ resp = <<>>
    /\ events = {}
    /\ accessors = {}
    /\ overlapped = FALSE
    /\ failures = 0
    /\ budget = 3 * MaxViews
    /\ \E surfaces \in [1..MaxViews -> Senders], sources \in [1..MaxViews -> Sources] :
         views = [v \in 1..MaxViews |->
                    [View(surfaces[v], 0, {}) EXCEPT !.source = sources[v]]]
    /\ documents = {}
    /\ banner = NoBanner
    /\ sidePanelState = {}

\* the view sends a request and awaits its response
Await(v, p, stage) ==
    /\ Start(p)
    /\ views' = [views EXCEPT ![v].pending = Len(procs) + 1, ![v].stage = stage]

\* getOrCreateDocument up to its first await
GetOrCreateStart(v) ==
    /\ views[v].stage = "idle"
    /\ Await(v, [Proc("coordinator", views[v].surface, "GET_DOCUMENT_BY_SOURCE", 0, 0, 0,
                      FALSE, "get_document", 0, 0, {})
                   EXCEPT !.source = views[v].source], "get")
    /\ UNCHANGED <<codecVars, highlights, notes, syncState, clock, usedIds, events,
                   accessors, overlapped, failures, documents, banner, sidePanelState>>

\* resolve(response.document): an existing document ends the sequence, none
\* (or an error response, which has no document) leads to CREATE_DOCUMENT
GetOrCreateFound(v) ==
    /\ views[v].stage = "get"
    /\ resp[views[v].pending].kind # "none"
    /\ resp[views[v].pending].id # 0
    /\ views' = [views EXCEPT ![v].doc = resp[views[v].pending].id, ![v].pending = 0,
                              ![v].stage = "ready"]
    /\ UNCHANGED <<codecVars, coordVars, documents, banner, sidePanelState>>

GetOrCreateMissing(v) ==
    /\ views[v].stage = "get"
    /\ resp[views[v].pending].kind # "none"
    /\ resp[views[v].pending].id = 0
    /\ \E id \in FreshIds, now \in Nows :
         /\ Await(v, [Proc("coordinator", views[v].surface, "CREATE_DOCUMENT", 0, 0, 0,
                           FALSE, "add_document", id, now, {})
                        EXCEPT !.source = views[v].source], "create")
         /\ usedIds' = usedIds \cup {id}
         /\ clock' = now
    /\ UNCHANGED <<codecVars, highlights, notes, syncState, events, accessors,
                   overlapped, failures, documents, banner, sidePanelState>>

\* resolve(response.documentId), then extractAndStorePageText(docId)
GetOrCreateCreated(v) ==
    /\ views[v].stage = "create"
    /\ resp[views[v].pending].kind # "none"
    /\ \E id \in FreshIds :
         /\ Await(v, Proc("coordinator", views[v].surface, "CREATE_PAGE_TEXT",
                          resp[views[v].pending].id, 0, 0, FALSE, "add_page_text", id, 0,
                          {}), "text")
         /\ usedIds' = usedIds \cup {id}
    /\ UNCHANGED <<codecVars, highlights, notes, syncState, clock, events, accessors,
                   overlapped, failures, documents, banner, sidePanelState>>

\* return docId
GetOrCreateEnd(v) ==
    /\ views[v].stage = "text"
    /\ resp[views[v].pending].kind # "none"
    /\ views' = [views EXCEPT ![v].doc = procs[views[v].pending].doc, ![v].pending = 0,
                              ![v].stage = "ready"]
    /\ UNCHANGED <<codecVars, coordVars, documents, banner, sidePanelState>>

NextDocuments ==
    \/ \E v \in ViewIds : GetOrCreateStart(v)
    \/ \E v \in ViewIds : GetOrCreateFound(v)
    \/ \E v \in ViewIds : GetOrCreateMissing(v)
    \/ \E v \in ViewIds : GetOrCreateCreated(v)
    \/ \E v \in ViewIds : GetOrCreateEnd(v)
    \/ \E r \in Rids : GetDocumentBySource(r)
    \/ \E r \in Rids : AddDocument(r)
    \/ \E r \in Rids : MarkDirtyRead(r)
    \/ \E r \in Rids : MarkDirtyWrite(r)
    \/ \E r \in Rids : AddPageText(r)

SpecDocuments == InitDocuments /\ [][NextDocuments]_vars

\* C29: under every interleaving of the get-or-create sequences of the
\* views, the store never holds two Documents with the same source locator.
C29_OneDocumentPerSource ==
    \A d1 \in documents, d2 \in documents : d1.source = d2.source => d1.id = d2.id

\* C30: when all the restoreHighlights calls of a view have finished,
\* however they overlapped, no identifier of a stored highlight is carried by
\* two markers of the view.
C30_RestoredOnce ==
    cpc = "restored" => \A h \in highlights : Cardinality(Marked(dom, h.id)) <= 1

====
